---- MODULE Spec2Model ----
(***************************************************************************)
(* A model of app.py, the Streamlit script of the radio jingle generator.  *)
(*                                                                         *)
(* Streamlit executes the script from top to bottom once per "script run"; *)
(* every widget interaction (typing a theme, pressing the button) starts a *)
(* new script run with the widget state of the browser session.  The model *)
(* follows one session: pc is the position of the running script, ui is    *)
(* the list of elements the run has displayed so far, and the remaining    *)
(* variables are the script's own names (hf_api_key, llm, theme,           *)
(* generate_button, crew, result) plus history variables (llmCalls, log,   *)
(* attempts, raisedExc, escaped) that record what the run did.             *)
(*                                                                         *)
(* Strings whose content the code inspects (the token, the pip version)    *)
(* are sequences of one-character strings; an optional value (the result   *)
(* of secrets.get / os.getenv, a task's output) is the empty sequence when *)
(* absent and a one-element sequence when present.                         *)
(***************************************************************************)
EXTENDS Integers, Sequences, FiniteSets, TLC

VARIABLES
    runs,             \* number of the current script run of the session
    pc,               \* position of the script in the current run
    secrets,          \* st.secrets.get("HUGGINGFACEHUB_API_TOKEN")
    env,              \* os.getenv("HUGGINGFACEHUB_API_TOKEN")
    pyinfo,           \* <<sys.version_info, pip.__version__>>
    typed,            \* session state of the text_input widget
    clicked,          \* session state of the button widget for this run
    hf_api_key,       \* the script's hf_api_key
    ui,               \* elements displayed by this run, in order
    llm,              \* TRUE once HuggingFaceEndpoint(...) has been constructed
    llmCalls,         \* calls made to the hosted endpoint in this run
    formRendered,     \* TRUE once text_input and button have been rendered
    theme,            \* the script's theme
    generate_button,  \* the script's generate_button
    crew,             \* the script's crew: <<>> or <<[agents, tasks]>>
    attempt,          \* tenacity's attempt_number = calls of crew.kickoff
    stageIdx,         \* index of the task crew.kickoff executes next
    log,              \* task executions of this run, in order
    attempts,         \* outcome of each finished call of run_crew's body
    slept,            \* seconds tenacity has waited between attempts
    result,           \* the script's result: <<>> or <<output>>
    raisedExc,        \* the exception that reached a handler, or NoExc
    escaped           \* TRUE when an exception left the script uncaught

vars == <<runs, pc, secrets, env, pyinfo, typed, clicked, hf_api_key, ui, llm,
          llmCalls, formRendered, theme, generate_button, crew, attempt,
          stageIdx, log, attempts, slept, result, raisedExc, escaped>>

-----------------------------------------------------------------------------
(* Bounds of the model. *)

\* Script runs of one browser session.
MaxRuns == 2

-----------------------------------------------------------------------------
(* Program constants. *)

\* stop_after_attempt(3)
StopAfterAttempt == 3
\* wait_exponential(multiplier=1, min=4, max=10)
WaitMultiplier == 1
WaitMin == 4
WaitMax == 10
\* py_version.major == 3 and py_version.minor > 11
RecommendedMajor == 3
RecommendedMinor == 11

\* "hf_"
HfPrefix == <<"h", "f", "_">>
\* "25.2"
MinPip == <<"2", "5", ".", "2">>
\* the default value of the text_input
DefaultTheme == "Example: Summer Beach Party"

-----------------------------------------------------------------------------
(* Inputs. *)

Absent == <<>>
Some(v) == <<v>>

\* Token strings: empty, well-formed, and one that contains "hf_" without
\* starting with it.
Tokens == { <<>>, <<"h", "f", "_", "a">>, <<"x", "h", "f", "_">> }
TokenSources == {Absent} \cup {Some(t) : t \in Tokens}

PyVersions == { <<3, 11>>, <<3, 12>> }
PipVersions == { <<"2", "4", ".", "0">>, <<"2", "5", ".", "2">> }

\* What the user may have typed: nothing, one blank, a theme, the default.
Themes == {"", " ", DefaultTheme}

\* Exception classes the external calls raise.
RaisedTypes == {"TimeoutError", "AttributeError"}

-----------------------------------------------------------------------------
(* Python helpers. *)

\* Truth value of an optional string: None and "" are falsy.
Truthy(opt) == opt # Absent /\ opt[1] # <<>>

\* a or b
Or(a, b) == IF Truthy(a) THEN a ELSE b

\* s.startswith(p)
StartsWith_Contains(s, p) ==
    \E i \in 1..Len(s) : i + Len(p) - 1 <= Len(s) /\ SubSeq(s, i, i + Len(p) - 1) = p
StartsWith(s, p) == Len(s) >= Len(p) /\ SubSeq(s, 1, Len(p)) = p

\* ord(c) for the characters of a version string
Ord(c) ==
    CASE c = "." -> 46
      [] c = "0" -> 48
      [] c = "1" -> 49
      [] c = "2" -> 50
      [] c = "3" -> 51
      [] c = "4" -> 52
      [] c = "5" -> 53
      [] c = "6" -> 54
      [] c = "7" -> 55
      [] c = "8" -> 56
      [] c = "9" -> 57

\* a < b on strings: lexicographic by character code
RECURSIVE StrLess(_, _)
StrLess(a, b) ==
    IF b = <<>> THEN FALSE
    ELSE IF a = <<>> THEN TRUE
    ELSE IF Ord(Head(a)) # Ord(Head(b)) THEN Ord(Head(a)) < Ord(Head(b))
    ELSE StrLess(Tail(a), Tail(b))

\* The direct base class of an exception class.
ExcBase(t) ==
    CASE t = "TimeoutError" -> "OSError"
      [] t = "OSError" -> "Exception"
      [] t = "AttributeError" -> "Exception"
      [] t = "RetryError" -> "Exception"
      [] t = "Exception" -> "BaseException"
      [] OTHER -> "object"

\* isinstance(e, c), which decides whether "except c" catches e
RECURSIVE IsInstance(_, _)
IsInstance(t, c) == t = c \/ (t # "object" /\ IsInstance(ExcBase(t), c))

NoExc == [type |-> "None", msg |-> <<>>]

\* An exception raised by an external call.
Exc(t) == [type |-> t, msg |-> <<t, " raised">>]

\* str(e)
Str(e) == e.msg

\* UI elements.
Element(kind, text) == [kind |-> kind, text |-> text]
StError(text) == Element("error", text)

KeyNotFoundMsg == <<"Hugging Face API key not found.">>
InvalidTokenMsg == <<"Invalid Hugging Face API token. It should start with 'hf_'.">>
InitFailedPrefix == <<"Failed to initialize SLM: ">>
GenErrorPrefix == <<"An error occurred while generating the jingle: ">>
SuccessMsg == <<"Jingle generated!">>

-----------------------------------------------------------------------------
(* The crew. *)

Agents == <<"Researcher", "Jingle Creator", "Copywriter">>

Task(name, agent, context) ==
    [name |-> name, agent |-> agent, context |-> context, output |-> Absent]

research_task == Task("research_task", "Researcher", <<>>)
create_task == Task("create_task", "Jingle Creator", <<"research_task">>)
copywrite_task == Task("copywrite_task", "Copywriter", <<"create_task">>)

\* Crew(agents=[...], tasks=[research_task, create_task, copywrite_task])
NewCrew_Swapped ==
    [agents |-> Agents, tasks |-> <<create_task, research_task, copywrite_task>>]
NewCrew == [agents |-> Agents, tasks |-> <<research_task, create_task, copywrite_task>>]

\* The task of crew.tasks named n.
TaskByName(tasks, n) == tasks[CHOOSE i \in DOMAIN tasks : tasks[i].name = n]

\* The outputs present among the tasks named in names, in that order.
RECURSIVE Aggregate(_, _)
Aggregate(names, tasks) ==
    IF names = <<>> THEN <<>>
    ELSE TaskByName(tasks, Head(names)).output \o Aggregate(Tail(names), tasks)

\* The context a sequential crew hands to tasks[idx]: the outputs of the tasks
\* of its context list, or, for a task without one, of the tasks run before it.
ContextFor(tasks, idx) ==
    IF tasks[idx].context # <<>>
    THEN Aggregate(tasks[idx].context, tasks)
    ELSE Aggregate([j \in 1..(idx - 1) |-> tasks[j].name], tasks)

\* What a task produces from its context in a given attempt.
Output(task, att, ctx) == [task |-> task.name, attempt |-> att, context |-> ctx]

-----------------------------------------------------------------------------
(* The retry decorator. *)

RECURSIVE Pow2(_)
Pow2(n) == IF n <= 0 THEN 1 ELSE 2 * Pow2(n - 1)

Max(a, b) == IF a >= b THEN a ELSE b
Min(a, b) == IF a <= b THEN a ELSE b

\* wait_exponential(multiplier=1, min=4, max=10) after attempt n
WaitExponential(n) ==
    Max(Max(0, WaitMin), Min(WaitMultiplier * Pow2(n - 1), WaitMax))

\* stop_after_attempt(3)
StopNow(n) == n >= StopAfterAttempt

\* tenacity's default retry condition, retry_if_exception_type(Exception)
ShouldRetry_TimeoutOnly(e) == e.type = "TimeoutError"
ShouldRetry(e) == IsInstance(e.type, "Exception")

\* run_crew's own handler: except Exception as inner_e: raise Exception(...)
Wrap(e) ==
    IF IsInstance(e.type, "Exception")
    THEN [type |-> "Exception", msg |-> <<"Crew execution failed: ">> \o Str(e)]
    ELSE e

\* RetryError(last_attempt), raised by tenacity when it gives up
RetryError(e) ==
    [type |-> "RetryError", msg |-> <<"RetryError[<Future raised ", e.type, ">]">>]

-----------------------------------------------------------------------------
(* How a step of the script ends. *)

\* The step displayed `shown` and the script goes on at `next`.
Proceed(shown, next) ==
    /\ ui' = shown
    /\ pc' = next
    /\ UNCHANGED <<raisedExc, escaped>>

\* except Exception as e: st.error("Failed to initialize SLM: ..."); st.stop()
InitFailed_NoStop(e, shown) ==
    /\ raisedExc' = e
    /\ ui' = Append(shown, StError(InitFailedPrefix \o Str(e)))
    /\ pc' = "form"
    /\ escaped' = escaped
InitFailed(e, shown) ==
    /\ raisedExc' = e
    /\ IF IsInstance(e.type, "Exception")
       THEN /\ ui' = Append(shown, StError(InitFailedPrefix \o Str(e)))
            /\ pc' = "stopped"
            /\ escaped' = escaped
       ELSE /\ ui' = shown
            /\ pc' = "crashed"
            /\ escaped' = TRUE

\* except Exception as e: st.error("An error occurred while generating ...")
GenerateFailed_RetryErrorOnly(e, shown) ==
    /\ raisedExc' = e
    /\ IF e.type = "RetryError"
       THEN /\ ui' = Append(shown, StError(GenErrorPrefix \o Str(e)))
            /\ pc' = "done"
            /\ escaped' = escaped
       ELSE /\ ui' = shown
            /\ pc' = "crashed"
            /\ escaped' = TRUE
GenerateFailed(e, shown) ==
    /\ raisedExc' = e
    /\ IF IsInstance(e.type, "Exception")
       THEN /\ ui' = Append(shown, StError(GenErrorPrefix \o Str(e)))
            /\ pc' = "done"
            /\ escaped' = escaped
       ELSE /\ ui' = shown
            /\ pc' = "crashed"
            /\ escaped' = TRUE

session == <<runs, secrets, env, pyinfo, typed, clicked>>
pipeline == <<crew, attempt, stageIdx, log, attempts, slept, result>>

-----------------------------------------------------------------------------
(* The script, step by step. *)

Init ==
    /\ runs = 1
    /\ pc = "header"
    /\ secrets \in TokenSources
    /\ env \in TokenSources
    /\ pyinfo \in PyVersions \X PipVersions
    /\ typed = DefaultTheme
    /\ clicked = FALSE
    /\ hf_api_key = Absent
    /\ ui = <<>>
    /\ llm = FALSE
    /\ llmCalls = 0
    /\ formRendered = FALSE
    /\ theme = ""
    /\ generate_button = FALSE
    /\ crew = Absent
    /\ attempt = 0
    /\ stageIdx = 0
    /\ log = <<>>
    /\ attempts = <<>>
    /\ slept = 0
    /\ result = Absent
    /\ raisedExc = NoExc
    /\ escaped = FALSE

\* st.title(...); st.markdown(...)
RenderHeader ==
    /\ pc = "header"
    /\ Proceed(ui \o <<Element("title", <<"Radio Jingle Generator">>),
                       Element("markdown", <<"This app uses CrewAI">>)>>, "token")
    /\ UNCHANGED <<session, pipeline, hf_api_key, llm, llmCalls, formRendered,
                   theme, generate_button>>

\* hf_api_key = secrets.get(...) or os.getenv(...), and the two checks on it
CheckToken_NoPrefixStop ==
    /\ pc = "token"
    /\ hf_api_key' = Or(secrets, env)
    /\ IF ~Truthy(hf_api_key')
       THEN Proceed(Append(ui, StError(KeyNotFoundMsg)), "stopped")
       ELSE IF ~StartsWith(hf_api_key'[1], HfPrefix)
       THEN Proceed(Append(ui, StError(InvalidTokenMsg)), "versions")
       ELSE Proceed(ui, "versions")
    /\ UNCHANGED <<session, pipeline, llm, llmCalls, formRendered, theme,
                   generate_button>>
CheckToken ==
    /\ pc = "token"
    /\ hf_api_key' = Or(secrets, env)
    /\ IF ~Truthy(hf_api_key')
       THEN Proceed(Append(ui, StError(KeyNotFoundMsg)), "stopped")
       ELSE IF ~StartsWith(hf_api_key'[1], HfPrefix)
       THEN Proceed(Append(ui, StError(InvalidTokenMsg)), "stopped")
       ELSE Proceed(ui, "versions")
    /\ UNCHANGED <<session, pipeline, llm, llmCalls, formRendered, theme,
                   generate_button>>

\* The Python and pip version warnings.
CheckVersions ==
    /\ pc = "versions"
    /\ LET py == pyinfo[1]
           pip_version == pyinfo[2]
           w1 == IF py[1] = RecommendedMajor /\ py[2] > RecommendedMinor
                 THEN <<Element("warning", <<"Running on Python", py>>)>>
                 ELSE <<>>
           w2 == IF StrLess(pip_version, MinPip)
                 THEN <<Element("warning", <<"Using pip", pip_version>>)>>
                 ELSE <<>>
       IN  Proceed(ui \o w1 \o w2, "llm_init")
    /\ UNCHANGED <<session, pipeline, hf_api_key, llm, llmCalls, formRendered,
                   theme, generate_button>>

\* llm = HuggingFaceEndpoint(...), inside the try
ConstructLLM ==
    /\ pc = "llm_init"
    /\ \/ /\ llm' = TRUE
          /\ Proceed(ui, "conn_test")
       \/ \E t \in RaisedTypes :
             /\ llm' = FALSE
             /\ InitFailed(Exc(t), ui)
    /\ UNCHANGED <<session, pipeline, hf_api_key, llmCalls, formRendered, theme,
                   generate_button>>

\* test_response = llm.invoke("Test connection ..."); st.write(...)
ConnectionTest_NoInvoke ==
    /\ pc = "conn_test"
    /\ llmCalls' = llmCalls
    /\ Proceed(Append(ui, Element("write", <<"Hugging Face API connection successful!">>)),
               "form")
    /\ UNCHANGED <<session, pipeline, hf_api_key, llm, formRendered, theme,
                   generate_button>>
ConnectionTest ==
    /\ pc = "conn_test"
    /\ llmCalls' = llmCalls + 1
    /\ \/ Proceed(Append(ui, Element("write", <<"Hugging Face API connection successful!">>)),
                  "form")
       \/ \E t \in RaisedTypes : InitFailed(Exc(t), ui)
    /\ UNCHANGED <<session, pipeline, hf_api_key, llm, formRendered, theme,
                   generate_button>>

\* theme = st.text_input(...); generate_button = st.button(...)
RenderForm ==
    /\ pc = "form"
    /\ theme' = typed
    /\ generate_button' = clicked
    /\ formRendered' = TRUE
    /\ Proceed(ui \o <<Element("text_input", <<typed>>),
                       Element("button", <<"Generate Jingle">>)>>, "guard")
    /\ UNCHANGED <<session, pipeline, hf_api_key, llm, llmCalls>>

\* generate_button and theme
Submitted_ButtonOnly(button, text) == button
Submitted(button, text) == button /\ text # ""

\* if generate_button and theme:
SubmitGuard ==
    /\ pc = "guard"
    /\ IF Submitted(generate_button, theme)
       THEN Proceed(Append(ui, Element("spinner", <<"Assembling the crew">>)), "build")
       ELSE Proceed(ui, "done")
    /\ UNCHANGED <<session, pipeline, hf_api_key, llm, llmCalls, formRendered,
                   theme, generate_button>>

\* The three Agent(...), the three Task(...) and Crew(...)
BuildCrew ==
    /\ pc = "build"
    /\ \/ /\ crew' = Some(NewCrew)
          /\ Proceed(ui, "run_crew")
       \/ \E t \in RaisedTypes :
             /\ crew' = crew
             /\ GenerateFailed(Exc(t), ui)
    /\ UNCHANGED <<session, hf_api_key, llm, llmCalls, formRendered, theme,
                   generate_button, attempt, stageIdx, log, attempts, slept, result>>

\* One attempt of the retrying run_crew(): crew.kickoff() starts its tasks over.
StartAttempt_Resume ==
    /\ pc = "run_crew"
    /\ attempt' = attempt + 1
    /\ stageIdx' = IF stageIdx = 0 THEN 1 ELSE stageIdx
    /\ Proceed(ui, "kickoff")
    /\ UNCHANGED <<session, hf_api_key, llm, llmCalls, formRendered, theme,
                   generate_button, crew, log, attempts, slept, result>>
StartAttempt ==
    /\ pc = "run_crew"
    /\ attempt' = attempt + 1
    /\ stageIdx' = 1
    /\ Proceed(ui, "kickoff")
    /\ UNCHANGED <<session, hf_api_key, llm, llmCalls, formRendered, theme,
                   generate_button, crew, log, attempts, slept, result>>

\* What follows an exception e raised inside crew.kickoff(): run_crew wraps
\* it, and tenacity waits and retries, gives up with RetryError, or re-raises.
AttemptFailed(e) ==
    LET wrapped == Wrap(e) IN
    /\ attempts' = Append(attempts, e.type)
    /\ IF ShouldRetry(wrapped) /\ ~StopNow(attempt)
       THEN /\ slept' = slept + WaitExponential(attempt)
            /\ Proceed(ui, "run_crew")
       ELSE /\ slept' = slept
            /\ GenerateFailed(IF ShouldRetry(wrapped) THEN RetryError(wrapped) ELSE wrapped, ui)

\* crew.kickoff() executes its next task: one call of the agent's llm.
ExecuteTask ==
    /\ pc = "kickoff"
    /\ stageIdx <= Len(crew[1].tasks)
    /\ llmCalls' = llmCalls + 1
    /\ LET tasks == crew[1].tasks
           ctx == ContextFor(tasks, stageIdx)
           out == Some(Output(tasks[stageIdx], attempt, ctx))
           entry(ok) == [task |-> tasks[stageIdx].name, attempt |-> attempt,
                         context |-> ctx, ok |-> ok,
                         output |-> IF ok THEN out ELSE Absent]
       IN  \/ /\ crew' = Some([crew[1] EXCEPT !.tasks[stageIdx].output = out])
              /\ log' = Append(log, entry(TRUE))
              /\ stageIdx' = stageIdx + 1
              /\ Proceed(ui, "kickoff")
              /\ UNCHANGED <<attempts, slept>>
           \/ \E t \in RaisedTypes :
                 /\ crew' = crew
                 /\ log' = Append(log, entry(FALSE))
                 /\ stageIdx' = stageIdx
                 /\ AttemptFailed(Exc(t))
    /\ UNCHANGED <<session, hf_api_key, llm, formRendered, theme, generate_button,
                   attempt, result>>

\* crew.kickoff() returns the output of the last task; result = run_crew()
KickoffReturn ==
    /\ pc = "kickoff"
    /\ stageIdx > Len(crew[1].tasks)
    /\ result' = crew[1].tasks[Len(crew[1].tasks)].output
    /\ attempts' = Append(attempts, "ok")
    /\ Proceed(ui, "show_result")
    /\ UNCHANGED <<session, hf_api_key, llm, llmCalls, formRendered, theme,
                   generate_button, crew, attempt, stageIdx, log, slept>>

\* st.success("Jingle generated!"); st.subheader(...); st.text(result)
ShowResult ==
    /\ pc = "show_result"
    /\ Proceed(ui \o <<Element("success", SuccessMsg),
                       Element("subheader", <<"Final Polished Jingle">>),
                       Element("text", result)>>, "expander0")
    /\ UNCHANGED <<session, pipeline, hf_api_key, llm, llmCalls, formRendered,
                   theme, generate_button>>

ExpanderLabel(i) ==
    IF i = 0 THEN <<"View Research Findings">> ELSE <<"View Initial Creation">>

\* with st.expander(...): st.text(crew.tasks[i].output.raw_output)
Expander(i) ==
    /\ pc = IF i = 0 THEN "expander0" ELSE "expander1"
    /\ LET shown == Append(ui, Element("expander", ExpanderLabel(i)))
       IN  \/ Proceed(Append(shown, Element("text", crew[1].tasks[i + 1].output)),
                      IF i = 0 THEN "expander1" ELSE "done")
           \/ GenerateFailed(Exc("AttributeError"), shown)
    /\ UNCHANGED <<session, pipeline, hf_api_key, llm, llmCalls, formRendered,
                   theme, generate_button>>

\* The script run has ended.
Terminated == pc \in {"stopped", "done", "crashed"}

\* A widget interaction or a reload starts the next script run of the session.
\* The widgets can be used only when the ended run rendered them.
Rerun ==
    /\ Terminated
    /\ runs < MaxRuns
    /\ runs' = runs + 1
    /\ secrets' \in TokenSources
    /\ env' \in TokenSources
    /\ pyinfo' = pyinfo
    /\ IF formRendered
       THEN typed' \in Themes /\ clicked' \in BOOLEAN
       ELSE typed' = typed /\ clicked' = FALSE
    /\ pc' = "header"
    /\ hf_api_key' = Absent
    /\ ui' = <<>>
    /\ llm' = FALSE
    /\ llmCalls' = 0
    /\ formRendered' = FALSE
    /\ theme' = ""
    /\ generate_button' = FALSE
    /\ crew' = Absent
    /\ attempt' = 0
    /\ stageIdx' = 0
    /\ log' = <<>>
    /\ attempts' = <<>>
    /\ slept' = 0
    /\ result' = Absent
    /\ raisedExc' = NoExc
    /\ escaped' = FALSE

\* The steps of a script run.
ScriptStep ==
    \/ RenderHeader
    \/ CheckToken
    \/ CheckVersions
    \/ ConstructLLM
    \/ ConnectionTest
    \/ RenderForm
    \/ SubmitGuard
    \/ BuildCrew
    \/ StartAttempt
    \/ ExecuteTask
    \/ KickoffReturn
    \/ ShowResult
    \/ \E i \in {0, 1} : Expander(i)

Next == ScriptStep \/ Rerun

Spec == Init /\ [][Next]_vars

\* Every call returns or raises, so a script run that can take a step does.
FairSpec == Spec /\ WF_vars(ScriptStep)

-----------------------------------------------------------------------------
(* What a script run shows and does, read off its state. *)

\* The number of tasks of the crew.
NumStages == Len(NewCrew.tasks)

\* The run is a submit: the button was pressed with a non-empty theme.
SubmitRun == formRendered /\ generate_button /\ theme # ""

IsKind(i, kind) == ui[i].kind = kind
IsGenError(i) ==
    /\ IsKind(i, "error")
    /\ SubSeq(ui[i].text, 1, Len(GenErrorPrefix)) = GenErrorPrefix
IsInitError(i) ==
    /\ IsKind(i, "error")
    /\ SubSeq(ui[i].text, 1, Len(InitFailedPrefix)) = InitFailedPrefix
IsTokenError(i) ==
    /\ IsKind(i, "error")
    /\ ui[i].text \in {KeyNotFoundMsg, InvalidTokenMsg}

GenErrors == {i \in DOMAIN ui : IsGenError(i)}
SuccessShown == \E i \in DOMAIN ui : IsKind(i, "success")
InitErrorShown == \E i \in DOMAIN ui : IsInitError(i)
TokenErrorShown == \E i \in DOMAIN ui : IsTokenError(i)

\* The whole display block ran: the last thing shown is the text of the
\* "View Initial Creation" expander.
ResultsDisplayed ==
    /\ Len(ui) >= 2
    /\ IsKind(Len(ui), "text")
    /\ IsKind(Len(ui) - 1, "expander")
    /\ ui[Len(ui) - 1].text = ExpanderLabel(1)

\* The token as the environment gives it, without the script's own checks.
TokenMissing == \A src \in {secrets, env} : src = Absent \/ src[1] = <<>>
EffectiveToken == IF secrets # Absent /\ secrets[1] # <<>> THEN secrets[1] ELSE env[1]
TokenMalformed ==
    /\ ~TokenMissing
    /\ \/ Len(EffectiveToken) < 3
       \/ <<EffectiveToken[1], EffectiveToken[2], EffectiveToken[3]>> # <<"h", "f", "_">>

-----------------------------------------------------------------------------
(* Claims. *)

\* C1: in every crew run started by a submit the stages execute in the order
\* research_task, create_task, copywrite_task: the first task an attempt
\* executes is research_task; create_task runs only after research_task has
\* produced its output in the same attempt and receives exactly that output
\* as its context; copywrite_task likewise after create_task; and a returned
\* result is the output of copywrite_task of the last attempt.
C1_StageOrder ==
    /\ \A i \in DOMAIN log :
          LET after(pred) ==
                  /\ i > 1
                  /\ log[i - 1].task = pred
                  /\ log[i - 1].ok
                  /\ log[i - 1].attempt = log[i].attempt
                  /\ log[i].context = log[i - 1].output
          IN  /\ log[i].task = "research_task" =>
                    (i = 1 \/ log[i - 1].attempt < log[i].attempt)
              /\ log[i].task = "create_task" => after("research_task")
              /\ log[i].task = "copywrite_task" => after("create_task")
    /\ result # Absent =>
          /\ log[Len(log)].task = "copywrite_task"
          /\ log[Len(log)].attempt = attempt
          /\ result = log[Len(log)].output

\* C1 witness: a run whose second attempt ran all three stages and returned.
C1_Witness == pc = "done" /\ result # Absent /\ attempt = 2 /\ ResultsDisplayed

\* C2 as claimed: a submit calls the endpoint exactly three times in the run.
C2_ExactlyThreeCalls == (Terminated /\ SubmitRun) => llmCalls = NumStages

\* C2 as amended: in a submit the endpoint is called once for the connection
\* test and once for each stage execution crew.kickoff starts: 1 + 3 calls when
\* the first attempt returns, at least 1 + 3 + (attempt - 1) when a later one
\* does, and never more than 1 + 3 * 3.
C2_CallsPerSubmit ==
    (Terminated /\ SubmitRun) =>
        /\ llmCalls = 1 + Len(log)
        /\ llmCalls <= 1 + StopAfterAttempt * NumStages
        /\ result # Absent =>
              /\ llmCalls >= 1 + NumStages + (attempt - 1)
              /\ attempt = 1 => llmCalls = 1 + NumStages

\* C2 witness: a submit that ended after the largest number of calls.
C2_Witness ==
    Terminated /\ SubmitRun /\ result # Absent
        /\ llmCalls = 1 + StopAfterAttempt * NumStages

\* C3 as claimed: a stage that completed in a failed attempt is not invoked
\* again by a later attempt.
C3_NoReinvocation ==
    \A i, j \in DOMAIN log :
        (i < j /\ log[i].ok /\ log[i].attempt < log[j].attempt) =>
            log[j].task # log[i].task

\* C3 as amended: the retry decorator covers the whole of crew.kickoff(): every
\* attempt, the retried ones included, starts again at research_task with an
\* empty context, so stages completed in a failed attempt are invoked again.
C3_RetryRestartsPipeline ==
    /\ \A i \in DOMAIN log :
          (i = 1 \/ log[i - 1].attempt # log[i].attempt) =>
              /\ log[i].task = "research_task"
              /\ log[i].context = <<>>
    /\ \A a \in 1..attempt :
          (a < attempt \/ pc # "kickoff" \/ stageIdx > 1) =>
              \E i \in DOMAIN log : log[i].attempt = a /\ log[i].task = "research_task"

\* C3 witness: research_task completed in a failed attempt and ran again.
C3_Witness ==
    \E i, j \in DOMAIN log :
        /\ i < j
        /\ log[i].ok
        /\ log[i].task = "research_task"
        /\ log[j].task = "research_task"
        /\ log[i].attempt < log[j].attempt

\* C4: an exception that leaves a statement of the try block after a submit
\* (building the crew, run_crew() with its retries exhausted, displaying the
\* results) is caught: the run ends with exactly one generation error
\* message, which carries str(e) and is the last element shown, and no
\* exception escapes the script run.
C4_ExceptionsBecomeOneError ==
    /\ ~escaped
    /\ pc # "crashed"
    /\ SubmitRun =>
          IF raisedExc # NoExc
          THEN /\ pc = "done"
               /\ Cardinality(GenErrors) = 1
               /\ ui[Len(ui)] = StError(GenErrorPrefix \o Str(raisedExc))
          ELSE GenErrors = {}

\* C4 witness: a submit whose build raised (the exception is not a RetryError
\* and the crew was never assembled).
C4_Witness ==
    SubmitRun /\ pc = "done" /\ crew = Absent /\ raisedExc.type = "TimeoutError"

\* C5: in a script run where the button was not pressed or the theme is empty
\* no crew is built, crew.kickoff is never called, no task runs, and neither
\* the success message nor the generation error message is displayed.
C5_NoPipelineWithoutSubmit ==
    (~clicked \/ typed = "") =>
        /\ crew = Absent
        /\ attempt = 0
        /\ log = <<>>
        /\ ~SuccessShown
        /\ GenErrors = {}
        /\ pc \notin {"build", "run_crew", "kickoff", "show_result",
                      "expander0", "expander1"}

\* C5 witness: the button was pressed with an empty theme and the run ended
\* after rendering the form.
C5_Witness == pc = "done" /\ formRendered /\ generate_button /\ theme = ""

\* C6: crew.kickoff is attempted at most 3 times in a submit; a failed
\* attempt, whatever was raised, is followed by another attempt while fewer
\* than 3 have been made; no attempt follows one that returned; and after 3
\* failed attempts the success message is not shown and the error message is.
C6_RetryPolicy ==
    LET n == Len(attempts)
        failed(i) == attempts[i] # "ok"
    IN  /\ attempt <= StopAfterAttempt
        /\ n <= attempt
        /\ \A i \in 1..(n - 1) : failed(i)
        /\ (n > 0 /\ failed(n) /\ n < StopAfterAttempt) =>
              \/ pc = "run_crew" /\ attempt = n
              \/ pc = "kickoff" /\ attempt = n + 1
        /\ (n > 0 /\ ~failed(n)) => attempt = n /\ pc \notin {"run_crew", "kickoff"}
        /\ (n = StopAfterAttempt /\ failed(n)) =>
              /\ pc = "done"
              /\ attempt = n
              /\ ~SuccessShown
              /\ Cardinality(GenErrors) = 1

\* C6 witness: three attempts failed, on exceptions of different types.
C6_Witness ==
    /\ pc = "done"
    /\ attempts = <<"TimeoutError", "AttributeError", "TimeoutError">>

\* C7: when the token is missing or does not start with "hf_" the run shows
\* the matching error and stops: the endpoint object is never constructed,
\* the endpoint is never invoked, the form is not rendered and no crew runs.
C7_BadTokenStops ==
    (pc \notin {"header", "token"} /\ (TokenMissing \/ TokenMalformed)) =>
        /\ pc = "stopped"
        /\ ui[Len(ui)] = StError(IF TokenMissing THEN KeyNotFoundMsg ELSE InvalidTokenMsg)
        /\ ~llm
        /\ llmCalls = 0
        /\ ~formRendered
        /\ crew = Absent
        /\ attempt = 0

\* C7 witness: the button was pressed, and the run stopped on a token that
\* contains "hf_" without starting with it.
C7_Witness ==
    pc = "stopped" /\ clicked /\ TokenMalformed /\ EffectiveToken = <<"x", "h", "f", "_">>

\* C8 as claimed: the connection-test call is made in every script run that
\* passes the token checks, before the form is rendered; when constructing
\* the endpoint or the test raises, the run shows "Failed to initialize SLM"
\* and stops, so the form is not rendered and crew.kickoff is not called.
C8_TestInEveryRun ==
    /\ (Terminated /\ ~TokenMissing /\ ~TokenMalformed) => llmCalls >= 1
    /\ formRendered => llmCalls >= 1
    /\ (raisedExc # NoExc /\ ~formRendered) => pc = "stopped" /\ InitErrorShown /\ attempt = 0

\* C8 as amended: the connection test is made in every script run that has
\* passed the token checks and constructed the endpoint, whether or not the
\* button was pressed, and before the form is rendered; when constructing the
\* endpoint raises, no call is made; when constructing or the test raises,
\* the run shows "Failed to initialize SLM" and stops, so the form is not
\* rendered and crew.kickoff is not called.
C8_ConnectionTestGate ==
    /\ formRendered =>
          /\ llm
          /\ llmCalls >= 1
          /\ \E i, j \in DOMAIN ui :
                i < j /\ IsKind(i, "write") /\ IsKind(j, "text_input")
    /\ (Terminated /\ llm) => llmCalls >= 1
    /\ (Terminated /\ ~TokenMissing /\ ~TokenMalformed) => (llm \/ InitErrorShown)
    /\ (Terminated /\ ~llm) => llmCalls = 0
    /\ (raisedExc # NoExc /\ crew = Absent /\ ~SubmitRun) =>
          /\ pc = "stopped"
          /\ ui[Len(ui)] = StError(InitFailedPrefix \o Str(raisedExc))
          /\ ~formRendered
          /\ attempt = 0
          /\ log = <<>>

\* C8 witness: the button had been pressed and the connection test raised.
C8_Witness ==
    pc = "stopped" /\ clicked /\ typed # "" /\ llm /\ llmCalls = 1 /\ InitErrorShown

\* C9: in one script run the success message and the generation error message
\* are never both displayed.
C9_SuccessExcludesError == ~(SuccessShown /\ GenErrors # {})

\* C10: every script run terminates, and a terminated run shows exactly one
\* of the five outcomes: token error, initialisation error, form rendered
\* with no pipeline run, results displayed in full, generation error.
Outcomes ==
    {k \in 1..5 :
        CASE k = 1 -> TokenErrorShown
          [] k = 2 -> InitErrorShown
          [] k = 3 -> formRendered /\ ~SubmitRun
          [] k = 4 -> ResultsDisplayed
          [] k = 5 -> GenErrors # {}}
====
